---- MODULE Spec2Model ----
(***************************************************************************)
(* Model of src/bot.py: the coupon-selling bot's ledger (users, coupons,   *)
(* orders, pending_orders, prices), the per-user session (user_data) and   *)
(* the handlers that change them.                                          *)
(*                                                                         *)
(* Every execute_query call opens its own connection and commits on its    *)
(* own (bot.py 55-80), so one statement is the unit of atomicity: a        *)
(* handler is a sequence of steps, one per statement, and the steps of     *)
(* handlers that are in flight together interleave. No handler takes a     *)
(* lock or opens a transaction, and the store is shared by every instance  *)
(* of the bot: up to NumSlots handlers are in flight at a time. A          *)
(* statement that raises is rolled back and execute_query returns None;    *)
(* the caller goes on. The number of such failures in a run is capped by   *)
(* MaxFailures.                                                            *)
(*                                                                         *)
(* The flows of the session (deposit, admin panel) are handled one event   *)
(* at a time, at most MaxEvents in a run. The two SELECTs of several rows  *)
(* (bot.py 687-690, 864-867) are called without a fetch argument and give  *)
(* None: the purchase goes to its refund, the removal to the error reply.  *)
(* execute_query itself is a state machine of its own (call, returned).    *)
(***************************************************************************)
EXTENDS Integers, FiniteSets, Sequences, TLC

\* ---------------------------------------------------------------- bounds
NumUsers == 2
MaxStock == 2
MaxClaims == 2
MaxQty == 3
MaxPurchases == 2
MaxResolves == 2
MaxFailures == 1
NumSlots == 2
MaxEvents == 5
MaxPriceInput == 1
MaxIdLen == 3
MaxCalls == 3
MaxQueryFailures == 4

\* retries = 3 (bot.py 43)
retries == 3

\* the amount of the claims the store holds at the start (at least the
\* minimum of 30, and the price of MaxStock coupons of type 500)
ClaimAmount == 1000

\* ------------------------------------------------------ program constants
ADMIN_ID == 1

\* "Minimum amount is 30" (bot.py 755, 784)
MinAmount == 30

Users == 1..NumUsers
Slots == 1..NumSlots
ClaimIds == 1..MaxClaims
CouponIds == 1..MaxStock
Types == {"500"}
QtyInputs == 0..MaxQty
AmountInputs == {MinAmount - 1, MinAmount}
PriceInputs == (-MaxPriceInput)..MaxPriceInput
CodeInputs == {1, MaxStock + 1}
Methods == {"amazon", "upi"}
AdminActions == {"add", "remove", "price"}
AdminOptions == AdminActions \cup {"qr", "other"}
BackTags == {"terms_decline", "back_to_menu", "admin_back"}

\* IdChars with the separator of the tags among the characters of an id
IdCharsWithUnderscore == {"0", "f", "-", "_"}

\* callback data are strings: sequences of characters. str(uuid.uuid4()) is
\* made of hexadecimal digits and hyphens (bot.py 932, 978)
IdChars == {"0", "f", "-"}
OrderIds == UNION {[1..n -> IdChars] : n \in 1..MaxIdLen}

default_prices == [t \in {"500", "1K", "2K", "4K"} |->
                     CASE t = "500" -> 500
                       [] t = "1K" -> 1000
                       [] t = "2K" -> 2000
                       [] t = "4K" -> 4000]

VARIABLES
  users,           \* table users: user_id -> balance (DOMAIN = the rows)
  coupons,         \* table coupons: id -> [code, type, is_used, used_by]
  orders,          \* table orders: id (PRIMARY KEY) -> [user_id, coupon_code, amount]
  pending_orders,  \* table pending_orders: id -> [user_id, amount, payment_method, status]
  prices,          \* table prices: type -> price
  user_data,       \* context.user_data of every user
  h,               \* the handler invocations in flight, with their local variables
                   \* (committed: the handler's last UPDATE was committed)
  receipts,        \* history: the outcome of every purchase that has ended
  credited,        \* history: claim id -> total balance credit its approvals committed
  notices,         \* history: claim id -> number of claimant notifications sent
  failures,        \* number of statements that have failed so far
  nPurchases,      \* number of purchases started
  nResolves,       \* number of approve/decline taps handled
  settings,        \* table settings: the qr_code_id of the row 'upi_qr'
  coupon_seq,      \* the sequence of coupons.id (SERIAL): the last id given out
  nEvents,         \* number of flow events (taps, texts, images) handled
  menus,           \* history: user -> number of user menu tokens the user has sent
  reprompts,       \* history: user -> number of "send a valid number" replies sent
  remove_errors,   \* history: user -> number of removal counts answered with the
                   \* error reply of handle_message (bot.py 904-906)
  backs,           \* history: user -> number of decline and back taps handled
  approval,        \* the approval keyboard sent to the operator and the tap on it
  call,            \* the execute_query call in progress, with its local variables
  returned,        \* history: what every execute_query call that has ended gave
                   \* its caller, and the table before and after it
  ignored          \* history: user -> number of free texts no branch has taken

\* what the purchase, approve and decline handlers never touch
flow == <<settings, coupon_seq, nEvents, menus, reprompts, remove_errors, backs, approval, call, returned,
          ignored>>

vars == <<users, coupons, orders, pending_orders, prices, user_data, h,
          receipts, credited, notices, failures, nPurchases, nResolves, flow>>

store == <<users, coupons, orders, pending_orders, prices>>

\* ------------------------------------------------------------ statements
Min(S) == CHOOSE x \in S : \A y \in S : x <= y

\* execute_query returns None for a statement that failed (bot.py 73-77): the
\* outcomes a statement can have now.
Outcomes == IF failures < MaxFailures THEN {"ok", "failed"} ELSE {"ok"}

Fail(o) == failures' = failures + (IF o = "failed" THEN 1 ELSE 0)

\* execute_query(query, params, fetch) (bot.py 55-80): what the caller gets
\* for a statement whose outcome is o and whose result set is rows. The rows
\* are fetched only when fetch is 'one' or 'all' (bot.py 63-66); with any
\* other fetch, 'none' by default, the result is None (bot.py 67-68), as it is
\* for a statement that raised (bot.py 73-77). None is << >>, a value v <<v>>.
execute_query(o, fetch, rows) ==
  IF o = "ok" /\ fetch \in {"one", "all"} THEN <<rows>> ELSE << >>

\* UPDATE users SET balance = balance + delta WHERE user_id = uid
AdjustBalance(tbl, uid, delta) ==
  IF uid \in DOMAIN tbl THEN [tbl EXCEPT ![uid] = @ + delta] ELSE tbl

\* SELECT balance FROM users WHERE user_id = uid; `result['balance'] if result else 0`
ReadBalance(tbl, uid) == IF uid \in DOMAIN tbl THEN tbl[uid] ELSE 0

\* the rows of WHERE type = t AND is_used = FALSE
Unused(tbl, t) == {c \in DOMAIN tbl : tbl[c].type = t /\ ~tbl[c].is_used}

\* SELECT COUNT(*) FROM coupons WHERE type = t AND is_used = FALSE
CountUnused(tbl, t) == Cardinality(Unused(tbl, t))

\* SELECT * FROM coupons WHERE type = t AND is_used = FALSE LIMIT n: the row
\* sets the statement can return (no ORDER BY: any n of the rows)
SelectUnused(tbl, t, n) ==
  LET U == Unused(tbl, t)
      k == IF n < Cardinality(U) THEN n ELSE Cardinality(U)
  IN {S \in SUBSET U : Cardinality(S) = k}

\* UPDATE coupons SET is_used = TRUE, used_by = uid WHERE id = c
MarkUsed(tbl, c, uid) ==
  IF c \in DOMAIN tbl
  THEN [tbl EXCEPT ![c].is_used = TRUE, ![c].used_by = uid]
  ELSE tbl

\* INSERT INTO orders (id, ...): id is the PRIMARY KEY, a second row with the
\* same id raises and is rolled back
InsertOrder(tbl, oid, row) ==
  IF oid \in DOMAIN tbl THEN tbl ELSE tbl @@ (oid :> row)

\* SELECT price FROM prices WHERE type = t; `result['price'] if result else 0`
ReadPrice(tbl, t) == IF t \in DOMAIN tbl THEN tbl[t] ELSE 0

\* SetStatus with the WHERE clause lost: every row gets the status
SetStatusEveryRow(tbl, cid, st) ==
  [c \in DOMAIN tbl |-> [tbl[c] EXCEPT !.status = st]]

\* UPDATE pending_orders SET status = st WHERE id = cid
SetStatus(tbl, cid, st) ==
  IF cid \in DOMAIN tbl THEN [tbl EXCEPT ![cid].status = st] ELSE tbl

\* INSERT INTO pending_orders (...) VALUES (cid, uid, amt, ..., m, 'pending'):
\* amount is NOT NULL (bot.py 130), a None amount raises and is rolled back
InsertClaim(tbl, cid, uid, amt, m) ==
  IF amt = << >> THEN tbl
  ELSE tbl @@ (cid :> [user_id |-> uid, amount |-> amt[1], payment_method |-> m,
                       status |-> "pending"])

\* INSERT INTO coupons (code, type, is_used) under the next id of the sequence:
\* code is UNIQUE (bot.py 105), a second row with the code raises
InsertCoupon(tbl, id, code, t) ==
  IF \E c \in DOMAIN tbl : tbl[c].code = code THEN tbl
  ELSE tbl @@ (id :> [code |-> code, type |-> t, is_used |-> FALSE, used_by |-> 0])

\* DELETE FROM coupons WHERE id = c
DeleteCoupon(tbl, c) == [x \in DOMAIN tbl \ {c} |-> tbl[x]]

\* UPDATE prices SET price = p WHERE type = t
SetPrice(tbl, t, p) == IF t \in DOMAIN tbl THEN [tbl EXCEPT ![t] = p] ELSE tbl

\* --------------------------------------------------------------- handlers
Idle == [kind |-> "none", pc |-> "idle", user |-> 0, qty |-> 0, ctype |-> "None",
         price |-> 0, unit |-> 0, total |-> 0, sel |-> {}, codes |-> {},
         pid |-> 0, net |-> 0, cid |-> 0, cuser |-> 0, amount |-> 0, was |-> "none",
         committed |-> FALSE]

HasFree == \E s \in Slots : h[s].pc = "idle"
FreeSlot == Min({s \in Slots : h[s].pc = "idle"})

\* context.user_data of a user who has no flow: .get() of an absent key is
\* None ("None" here, and << >> for the amount)
NoSession ==
  [awaiting_quantity |-> FALSE, selected_coupon |-> "None",
   payment_method |-> "None", payment_amount |-> << >>,
   awaiting_amount |-> FALSE, awaiting_upi_amount |-> FALSE,
   awaiting_giftcard |-> FALSE, giftcard_code |-> "None",
   awaiting_payer_name |-> FALSE, payer_name |-> "None", order_id |-> "None",
   awaiting_screenshot |-> FALSE, awaiting_upi_screenshot |-> FALSE,
   admin_action |-> "None", admin_coupon_type |-> "None",
   awaiting_coupons |-> FALSE, awaiting_remove_quantity |-> FALSE,
   awaiting_price |-> FALSE, awaiting_qr |-> FALSE]

\* the flags of the flows
AwaitingFlags ==
  {"awaiting_quantity", "awaiting_amount", "awaiting_upi_amount", "awaiting_giftcard",
   "awaiting_payer_name", "awaiting_screenshot", "awaiting_upi_screenshot",
   "awaiting_coupons", "awaiting_remove_quantity", "awaiting_price", "awaiting_qr"}

\* BelowMinimum with the bound one lower
BelowMinimumOffByOne(x) == x < MinAmount - 1

\* `if amount < 30` (bot.py 755, 784)
BelowMinimum(x) == x < MinAmount

\* the branch of handle_message's if/elif chain that takes a free text of a
\* user whose session is d (bot.py 634, 752, 781, 825, 832, 839, 859, 887)
TextBranch(d) ==
  IF d.awaiting_quantity THEN "quantity"
  ELSE IF d.awaiting_amount THEN "amount"
  ELSE IF d.awaiting_upi_amount THEN "upi_amount"
  ELSE IF d.awaiting_giftcard THEN "giftcard"
  ELSE IF d.awaiting_payer_name THEN "payer_name"
  ELSE IF d.awaiting_coupons THEN "coupons"
  ELSE IF d.awaiting_remove_quantity THEN "remove_quantity"
  ELSE IF d.awaiting_price THEN "price"
  ELSE "none"

\* the outcome of the purchase that handler r ran
Receipt(r, ok, codes, net, bal) ==
  [pid |-> r.pid, user |-> r.user, qty |-> r.qty, unit |-> r.unit, ok |-> ok,
   codes |-> codes, net |-> net, new_balance |-> bal]

\* ------------------------------------------------------------ button tags
\* the text of a payment method
MethodText(m) == IF m = "amazon" THEN <<"a", "m", "a", "z", "o", "n">> ELSE <<"u", "p", "i">>

\* f"approve_{order_id}_{payment_method}" and f"decline_{order_id}_{payment_method}"
\* (bot.py 235-240): the callback data of the two buttons
get_admin_approval_keyboard(order_id, payment_method) ==
  <<<<"a", "p", "p", "r", "o", "v", "e", "_">> \o order_id \o <<"_">> \o MethodText(payment_method),
    <<"d", "e", "c", "l", "i", "n", "e", "_">> \o order_id \o <<"_">> \o MethodText(payment_method)>>

\* str.split(sep): the pieces of s between the occurrences of sep
RECURSIVE Split(_, _)
Split(s, sep) ==
  IF s = << >> THEN << << >> >>
  ELSE LET rest == Split(Tail(s), sep)
       IN IF Head(s) = sep
          THEN << << >> >> \o rest
          ELSE << <<Head(s)>> \o Head(rest) >> \o Tail(rest)

\* str.startswith(prefix)
StartsWith(s, prefix) ==
  Len(s) >= Len(prefix) /\ SubSeq(s, 1, Len(prefix)) = prefix

\* the branch of button_callback's if/elif chain that takes the callback data
\* (bot.py 457, 463, 466, 498, 506, 513, 516, 520, 524, 547, 582)
CallbackBranch(data) ==
  IF data = <<"t", "e", "r", "m", "s", "_", "a", "g", "r", "e", "e">> THEN "terms_agree"
  ELSE IF data = <<"t", "e", "r", "m", "s", "_", "d", "e", "c", "l", "i", "n", "e">> THEN "terms_decline"
  ELSE IF StartsWith(data, <<"c", "o", "u", "p", "o", "n", "_">>) THEN "coupon"
  ELSE IF data = <<"p", "a", "y", "m", "e", "n", "t", "_", "a", "m", "a", "z", "o", "n">> THEN "payment_amazon"
  ELSE IF data = <<"p", "a", "y", "m", "e", "n", "t", "_", "u", "p", "i">> THEN "payment_upi"
  ELSE IF data = <<"b", "a", "c", "k", "_", "t", "o", "_", "m", "e", "n", "u">> THEN "back_to_menu"
  ELSE IF data = <<"s", "u", "b", "m", "i", "t", "_", "g", "i", "f", "t", "c", "a", "r", "d">> THEN "submit_giftcard"
  ELSE IF data = <<"p", "a", "i", "d", "_", "u", "p", "i">> THEN "paid_upi"
  ELSE IF StartsWith(data, <<"a", "d", "m", "i", "n", "_">>) THEN "admin"
  ELSE IF StartsWith(data, <<"a", "p", "p", "r", "o", "v", "e", "_">>) THEN "approve"
  ELSE IF StartsWith(data, <<"d", "e", "c", "l", "i", "n", "e", "_">>) THEN "decline"
  ELSE "none"

\* no approval keyboard has been sent
NoApproval ==
  [order_id |-> << >>, payment_method |-> "None", keyboard |-> << >>, button |-> 0,
   branch |-> "none", parsed_id |-> << >>, parsed_method |-> << >>]

\* no execute_query call is in progress. conn is "None" before
\* get_db_connection has returned (bot.py 57), result and the exception in
\* flight (exc) are None as << >>, tx is the users table as the open
\* transaction has left it, << >> when the call has written nothing
NoCall ==
  [pc |-> "idle", query |-> "None", user_id |-> 0, delta |-> 0, fetch |-> "none",
   i |-> 0, conn |-> "None", tx |-> << >>, result |-> << >>, exc |-> << >>,
   committed |-> FALSE, before |-> << >>]

\* ------------------------------------------------------------------ Init
\* The store is persistent and the session is not: the bot starts with the
\* tables an earlier run left and with empty sessions. The rows are those the
\* handlers write: claims of ClaimAmount that are pending or approved, unused
\* coupons, the seeded price list (bot.py 158-171), and a balance equal to the
\* approved claims of its user. A user has no row in users when the INSERT of
\* start was rolled back (bot.py 257-264, 73-77).
ClaimRow(c, u, st) ==
  [user_id |-> u, amount |-> ClaimAmount,
   payment_method |-> IF c % 2 = 1 THEN "amazon" ELSE "upi", status |-> st]

Approved(tbl, u) ==
  {c \in DOMAIN tbl : tbl[c].user_id = u /\ tbl[c].status = "approved"}

Init ==
  /\ \E k \in 0..MaxClaims :
       \E f \in [1..k -> Users \X {"pending", "approved"}] :
         pending_orders = [c \in 1..k |-> ClaimRow(c, f[c][1], f[c][2])]
  /\ \E acc \in SUBSET Users :
       /\ ADMIN_ID \in acc
       /\ users = [u \in acc |-> ClaimAmount * Cardinality(Approved(pending_orders, u))]
  /\ credited = [c \in ClaimIds |->
                   IF /\ c \in DOMAIN pending_orders
                      /\ pending_orders[c].status = "approved"
                      /\ pending_orders[c].user_id \in DOMAIN users
                   THEN pending_orders[c].amount ELSE 0]
  /\ coupons = [c \in CouponIds |->
                  [code |-> c, type |-> "500", is_used |-> FALSE, used_by |-> 0]]
  /\ orders = << >>
  /\ prices = [t \in Types |-> default_prices[t]]
  /\ user_data = [u \in Users |-> NoSession]
  /\ h = [s \in Slots |-> Idle]
  /\ receipts = {}
  /\ notices = [c \in ClaimIds |-> 0]
  /\ failures = 0
  /\ nPurchases = 0
  /\ nResolves = 0
  /\ settings = "None"
  /\ coupon_seq = MaxStock
  /\ nEvents = 0
  /\ menus = [u \in Users |-> 0]
  /\ reprompts = [u \in Users |-> 0]
  /\ remove_errors = [u \in Users |-> 0]
  /\ backs = [u \in Users |-> 0]
  /\ approval = NoApproval
  /\ call = NoCall
  /\ returned = << >>
  /\ ignored = [u \in Users |-> 0]

\* ----------------------------------------------------------------- start
\* start (bot.py 243-286): create the users row when there is none
Start(u) ==
  /\ \E o \in Outcomes :
       /\ Fail(IF u \in DOMAIN users THEN "ok" ELSE o)
       /\ users' = IF u \notin DOMAIN users /\ o = "ok" THEN users @@ (u :> 0) ELSE users
  /\ UNCHANGED <<coupons, orders, pending_orders, prices, user_data, h, receipts,
                 credited, notices, nPurchases, nResolves, flow>>

\* ------------------------------------------------------- coupon_<type> tap
\* button_callback, data = "coupon_<t>" (bot.py 466-496)
ButtonCoupon(u, t) ==
  \E o \in Outcomes :
    LET stock == IF o = "ok" THEN CountUnused(coupons, t) ELSE 0
    IN /\ Fail(o)
       /\ IF stock = 0
          THEN /\ user_data' = [user_data EXCEPT ![u].selected_coupon = t]
          ELSE /\ user_data' = [user_data EXCEPT ![u].selected_coupon = t,
                                                 ![u].awaiting_quantity = TRUE]
       /\ UNCHANGED <<store, h, receipts, credited, notices, nPurchases, nResolves, flow>>

\* --------------------------------------------------------------- purchase
\* handle_message, the awaiting_quantity branch (bot.py 634-749). EndPurchase
\* is what every exit of the branch does: the reply, awaiting_quantity = False,
\* and the handler is over.
EndPurchase(s, rec, pop) ==
  /\ receipts' = receipts \cup {rec}
  /\ user_data' = [user_data EXCEPT
                     ![h[s].user].awaiting_quantity = FALSE,
                     ![h[s].user].selected_coupon = IF pop THEN "None" ELSE @]
  /\ h' = [h EXCEPT ![s] = Idle]

\* int(text) raised ValueError (bot.py 744-745): the reply and nothing else
QuantityNotNumber(u) ==
  /\ user_data[u].awaiting_quantity
  /\ nEvents < MaxEvents
  /\ nEvents' = nEvents + 1
  /\ reprompts' = [reprompts EXCEPT ![u] = @ + 1]
  /\ UNCHANGED <<store, user_data, h, receipts, credited, notices, failures,
                 nPurchases, nResolves, settings, coupon_seq, menus, remove_errors, backs, approval, call, returned, ignored>>

\* the quantity q arrives: the checks up to the stock count (bot.py 634-654)
QuantityReply(u, q) ==
  /\ user_data[u].awaiting_quantity
  /\ IF q <= 0
     THEN /\ UNCHANGED <<store, user_data, h, receipts, credited, notices, failures,
                         nPurchases, nResolves, flow>>
     ELSE /\ HasFree
          /\ nPurchases < MaxPurchases
          /\ nPurchases' = nPurchases + 1
          /\ \E o \in Outcomes :
               LET t == user_data[u].selected_coupon
                   stock == IF o = "ok" THEN CountUnused(coupons, t) ELSE 0
                   r == [Idle EXCEPT !.kind = "purchase", !.pc = "price", !.user = u,
                                     !.qty = q, !.ctype = t, !.pid = nPurchases + 1]
               IN /\ Fail(o)
                  /\ IF q > stock
                     THEN /\ receipts' = receipts \cup {Receipt(r, FALSE, {}, 0, 0)}
                          /\ user_data' = [user_data EXCEPT ![u].awaiting_quantity = FALSE]
                          /\ UNCHANGED h
                     ELSE /\ h' = [h EXCEPT ![FreeSlot] = r]
                          /\ UNCHANGED <<receipts, user_data>>
          /\ UNCHANGED <<store, credited, notices, nResolves, flow>>

\* SELECT price (bot.py 656-663)
PurchasePrice(s) ==
  /\ h[s].pc = "price"
  /\ \E o \in Outcomes :
       LET price == IF o = "ok" THEN ReadPrice(prices, h[s].ctype) ELSE 0
       IN /\ Fail(o)
          /\ h' = [h EXCEPT ![s].pc = "balance", ![s].price = price,
                            ![s].unit = ReadPrice(prices, h[s].ctype),
                            ![s].total = price * h[s].qty]
  /\ UNCHANGED <<store, user_data, receipts, credited, notices,
                 nPurchases, nResolves, flow>>

\* PurchaseBalance with the debit moved above the balance check
PurchaseBalanceDebitFirst(s) ==
  /\ h[s].pc = "balance"
  /\ \E o \in Outcomes :
       LET balance == IF o = "ok" THEN ReadBalance(users, h[s].user) ELSE 0
       IN /\ Fail(o)
          /\ users' = AdjustBalance(users, h[s].user, -h[s].total)
          /\ IF balance < h[s].total
             THEN /\ receipts' = receipts \cup {Receipt(h[s], FALSE, {}, 0, 0)}
                  /\ user_data' = [user_data EXCEPT ![h[s].user].awaiting_quantity = FALSE]
                  /\ h' = [h EXCEPT ![s] = Idle]
             ELSE /\ h' = [h EXCEPT ![s].pc = "debit"]
                  /\ UNCHANGED <<receipts, user_data>>
  /\ UNCHANGED <<coupons, orders, pending_orders, prices, credited, notices,
                 nPurchases, nResolves, flow>>

\* SELECT balance and the balance check (bot.py 665-676)
PurchaseBalance(s) ==
  /\ h[s].pc = "balance"
  /\ \E o \in Outcomes :
       LET balance == IF o = "ok" THEN ReadBalance(users, h[s].user) ELSE 0
       IN /\ Fail(o)
          /\ IF balance < h[s].total
             THEN /\ receipts' = receipts \cup {Receipt(h[s], FALSE, {}, 0, 0)}
                  /\ user_data' = [user_data EXCEPT ![h[s].user].awaiting_quantity = FALSE]
                  /\ h' = [h EXCEPT ![s] = Idle]
             ELSE /\ h' = [h EXCEPT ![s].pc = "debit"]
                  /\ UNCHANGED <<receipts, user_data>>
  /\ UNCHANGED <<store, credited, notices, nPurchases, nResolves, flow>>

\* UPDATE users SET balance = balance - total (bot.py 678-684)
PurchaseDebit(s) ==
  /\ h[s].pc = "debit"
  /\ \E o \in Outcomes :
       /\ Fail(o)
       /\ users' = IF o = "ok" THEN AdjustBalance(users, h[s].user, -h[s].total) ELSE users
       /\ h' = [h EXCEPT ![s].pc = "select",
                         ![s].net = ReadBalance(users, h[s].user) - ReadBalance(users', h[s].user)]
  /\ UNCHANGED <<coupons, orders, pending_orders, prices, user_data, receipts,
                 credited, notices, nPurchases, nResolves, flow>>

\* PurchaseSelect with fetch='all' passed to execute_query
PurchaseSelectFetchAll(s) ==
  /\ h[s].pc = "select"
  /\ \E o \in Outcomes : \E S \in SelectUnused(coupons, h[s].ctype, h[s].qty) :
       LET coupons_result == execute_query(o, "all", S)
           short == \/ coupons_result = << >>
                    \/ coupons_result[1] = {}
                    \/ Cardinality(coupons_result[1]) < h[s].qty
       IN /\ Fail(o)
          /\ h' = [h EXCEPT ![s].pc = IF short THEN "refund" ELSE "mark",
                            ![s].sel = IF short THEN {} ELSE coupons_result[1]]
  /\ UNCHANGED <<store, user_data, receipts, credited, notices,
                 nPurchases, nResolves, flow>>

\* SELECT * FROM coupons ... LIMIT quantity and the test of its result (bot.py
\* 686-701). The call passes no fetch (bot.py 687-690), so fetch is 'none'
\* and coupons_result is None whether the statement commits or raises:
\* `not coupons_result` holds and the purchase goes to the refund.
PurchaseSelect(s) ==
  /\ h[s].pc = "select"
  /\ \E o \in Outcomes : \E S \in SelectUnused(coupons, h[s].ctype, h[s].qty) :
       LET coupons_result == execute_query(o, "none", S)
           short == \/ coupons_result = << >>
                    \/ coupons_result[1] = {}
                    \/ Cardinality(coupons_result[1]) < h[s].qty
       IN /\ Fail(o)
          /\ h' = [h EXCEPT ![s].pc = IF short THEN "refund" ELSE "mark",
                            ![s].sel = IF short THEN {} ELSE coupons_result[1]]
  /\ UNCHANGED <<store, user_data, receipts, credited, notices,
                 nPurchases, nResolves, flow>>

\* the refund of a purchase whose coupons_result is None or short (bot.py
\* 692-701)
PurchaseRefund(s) ==
  /\ h[s].pc = "refund"
  /\ \E o \in Outcomes :
       /\ Fail(o)
       /\ users' = IF o = "ok" THEN AdjustBalance(users, h[s].user, h[s].total) ELSE users
       /\ EndPurchase(s, Receipt(h[s], FALSE, {},
                        h[s].net - (ReadBalance(users', h[s].user) - ReadBalance(users, h[s].user)),
                        0),
                      FALSE)
  /\ UNCHANGED <<coupons, orders, pending_orders, prices, credited, notices,
                 nPurchases, nResolves, flow>>

\* the loop body, first statement: UPDATE coupons SET is_used = TRUE, and the
\* code joins coupon_codes whatever the statement did (bot.py 706-713). The
\* loop, and the receipt after it, run only for a coupons_result that is not
\* None: never, with the call of bot.py 687-690.
PurchaseMark(s) ==
  /\ h[s].pc = "mark"
  /\ \E o \in Outcomes :
       LET c == Min(h[s].sel)
       IN /\ Fail(o)
          /\ coupons' = IF o = "ok" THEN MarkUsed(coupons, c, h[s].user) ELSE coupons
          /\ h' = [h EXCEPT ![s].pc = "order", ![s].codes = @ \cup {c}]
  /\ UNCHANGED <<users, orders, pending_orders, prices, user_data, receipts,
                 credited, notices, nPurchases, nResolves, flow>>

\* the loop body, second statement: INSERT INTO orders under the order id of
\* the purchase, str(uuid4())[:8], one per purchase (bot.py 704, 715-720)
PurchaseOrder(s) ==
  /\ h[s].pc = "order"
  /\ \E o \in Outcomes :
       LET c == Min(h[s].sel)
           row == [user_id |-> h[s].user, coupon_code |-> c, amount |-> h[s].price]
       IN /\ Fail(o)
          /\ orders' = IF o = "ok" THEN InsertOrder(orders, h[s].pid, row) ELSE orders
          /\ h' = [h EXCEPT ![s].pc = IF h[s].sel = {c} THEN "receipt" ELSE "mark",
                            ![s].sel = @ \ {c}]
  /\ UNCHANGED <<users, coupons, pending_orders, prices, user_data, receipts,
                 credited, notices, nPurchases, nResolves, flow>>

\* SELECT balance again, the receipt with the codes, and the session is
\* cleared (bot.py 722-742)
PurchaseReceipt(s) ==
  /\ h[s].pc = "receipt"
  /\ \E o \in Outcomes :
       LET new_balance == IF o = "ok" THEN ReadBalance(users, h[s].user) ELSE 0
       IN /\ Fail(o)
          /\ EndPurchase(s, Receipt(h[s], TRUE, h[s].codes, h[s].net, new_balance), TRUE)
  /\ UNCHANGED <<store, credited, notices, nPurchases, nResolves, flow>>

\* ---------------------------------------------------------------- approve
\* button_callback, data = "approve_<cid>_<method>", tapped by a (bot.py
\* 547-560): SELECT the claim; nothing more happens when there is no row
ApproveTap(a, cid) ==
  /\ HasFree
  /\ nResolves < MaxResolves
  /\ nResolves' = nResolves + 1
  /\ \E o \in Outcomes :
       /\ Fail(o)
       /\ IF o = "ok" /\ cid \in DOMAIN pending_orders
          THEN h' = [h EXCEPT ![FreeSlot] =
                       [Idle EXCEPT !.kind = "approve", !.pc = "credit", !.user = a,
                                    !.cid = cid,
                                    !.cuser = pending_orders[cid].user_id,
                                    !.amount = pending_orders[cid].amount,
                                    !.was = pending_orders[cid].status]]
          ELSE UNCHANGED h
  /\ UNCHANGED <<store, user_data, receipts, credited, notices, nPurchases, flow>>

\* UPDATE users SET balance = balance + amount (bot.py 562-566)
ApproveCredit(s) ==
  /\ h[s].pc = "credit"
  /\ \E o \in Outcomes :
       /\ Fail(o)
       /\ users' = IF o = "ok" THEN AdjustBalance(users, h[s].cuser, h[s].amount) ELSE users
       /\ h' = [h EXCEPT ![s].pc = "status", ![s].committed = (o = "ok")]
  /\ credited' = [credited EXCEPT ![h[s].cid] =
                    @ + ReadBalance(users', h[s].cuser) - ReadBalance(users, h[s].cuser)]
  /\ UNCHANGED <<coupons, orders, pending_orders, prices, user_data, receipts,
                 notices, nPurchases, nResolves, flow>>

\* UPDATE pending_orders SET status = 'approved', then the message to the
\* claimant and the edit of the operator's message (bot.py 568-580)
ApproveStatus(s) ==
  /\ h[s].pc = "status"
  /\ \E o \in Outcomes :
       /\ Fail(o)
       /\ pending_orders' = IF o = "ok"
                            THEN SetStatus(pending_orders, h[s].cid, "approved")
                            ELSE pending_orders
  /\ notices' = [notices EXCEPT ![h[s].cid] = @ + 1]
  /\ h' = [h EXCEPT ![s] = Idle]
  /\ UNCHANGED <<users, coupons, orders, prices, user_data, receipts, credited,
                 nPurchases, nResolves, flow>>

\* ---------------------------------------------------------------- decline
\* button_callback, data = "decline_<cid>_<method>", tapped by a (bot.py
\* 582-591): UPDATE pending_orders SET status = 'declined'
DeclineTap(a, cid) ==
  /\ HasFree
  /\ nResolves < MaxResolves
  /\ nResolves' = nResolves + 1
  /\ \E o \in Outcomes :
       /\ Fail(o)
       /\ pending_orders' = IF o = "ok"
                            THEN SetStatus(pending_orders, cid, "declined")
                            ELSE pending_orders
       /\ h' = [h EXCEPT ![FreeSlot] =
                  [Idle EXCEPT !.kind = "decline", !.pc = "notify", !.user = a, !.cid = cid,
                               !.was = IF cid \in DOMAIN pending_orders
                                       THEN pending_orders[cid].status ELSE "none",
                               !.committed = (o = "ok")]]
  /\ UNCHANGED <<users, coupons, orders, prices, user_data, receipts, credited,
                 notices, nPurchases, flow>>

\* SELECT user_id of the claim, the message to the claimant when there is a
\* row, and the edit of the operator's message (bot.py 593-606)
DeclineNotify(s) ==
  /\ h[s].pc = "notify"
  /\ \E o \in Outcomes :
       /\ Fail(o)
       /\ notices' = IF o = "ok" /\ h[s].cid \in DOMAIN pending_orders
                     THEN [notices EXCEPT ![h[s].cid] = @ + 1]
                     ELSE notices
  /\ h' = [h EXCEPT ![s] = Idle]
  /\ UNCHANGED <<store, user_data, receipts, credited, nPurchases, nResolves, flow>>

\* ------------------------------------------------------------ flow events
\* what the handlers of the flows below never touch
handlers == <<h, receipts, credited, notices, nPurchases, nResolves>>

\* one more flow event is handled (at most MaxEvents in a run)
Event == nEvents < MaxEvents /\ nEvents' = nEvents + 1

\* handle_message, text in user_options (bot.py 626-631), handle_user_menu
\* (bot.py 288-360): a reply, for Balance and My Orders after a SELECT; no
\* key of user_data is written
Menu(u) ==
  /\ Event
  /\ menus' = [menus EXCEPT ![u] = @ + 1]
  /\ UNCHANGED <<store, user_data, handlers, failures, settings, coupon_seq, reprompts, remove_errors, backs, approval, call, returned, ignored>>

\* handle_message, text in admin_options and user_id == ADMIN_ID (bot.py
\* 618-623), handle_admin_menu (bot.py 362-447)
AdminMenu(a, opt) ==
  /\ a = ADMIN_ID
  /\ Event
  /\ user_data' = IF opt \in AdminActions
                  THEN [user_data EXCEPT ![a].admin_action = opt]
                  ELSE IF opt = "qr"
                       THEN [user_data EXCEPT ![a].awaiting_qr = TRUE]
                       ELSE user_data
  /\ UNCHANGED <<store, handlers, failures, settings, coupon_seq, menus, reprompts, remove_errors, backs, approval, call, returned, ignored>>

\* button_callback, data = "payment_amazon" or "payment_upi" (bot.py 498-511)
ButtonPayment(u, m) ==
  /\ Event
  /\ user_data' = IF m = "amazon"
                  THEN [user_data EXCEPT ![u].payment_method = m,
                                         ![u].awaiting_amount = TRUE]
                  ELSE [user_data EXCEPT ![u].payment_method = m,
                                         ![u].awaiting_upi_amount = TRUE]
  /\ UNCHANGED <<store, handlers, failures, settings, coupon_seq, menus, reprompts, remove_errors, backs, approval, call, returned, ignored>>

\* button_callback, data = "terms_agree" (bot.py 457-461): the message is edited
\* to the keyboard of the coupon types
ButtonTermsAgree(u) ==
  /\ Event
  /\ UNCHANGED <<store, user_data, handlers, failures, settings, coupon_seq, menus,
                 reprompts, remove_errors, backs, approval, call, returned, ignored>>

\* button_callback, data = "terms_decline", "back_to_menu" or "admin_back"
\* (bot.py 463-464, 513-514, 544-545): the message is edited, and no key of
\* user_data is written
ButtonBack(u, b) ==
  /\ Event
  /\ backs' = [backs EXCEPT ![u] = @ + 1]
  /\ UNCHANGED <<store, user_data, handlers, failures, settings, coupon_seq, menus,
                 reprompts, remove_errors, approval, call, returned, ignored>>

\* button_callback, data = "submit_giftcard" (bot.py 516-518)
ButtonSubmitGiftcard(u) ==
  /\ Event
  /\ user_data' = [user_data EXCEPT ![u].awaiting_giftcard = TRUE]
  /\ UNCHANGED <<store, handlers, failures, settings, coupon_seq, menus, reprompts, remove_errors, backs, approval, call, returned, ignored>>

\* button_callback, data = "paid_upi" (bot.py 520-522)
ButtonPaidUpi(u) ==
  /\ Event
  /\ user_data' = [user_data EXCEPT ![u].awaiting_payer_name = TRUE]
  /\ UNCHANGED <<store, handlers, failures, settings, coupon_seq, menus, reprompts, remove_errors, backs, approval, call, returned, ignored>>

\* button_callback, data = "admin_<action>_<t>" (bot.py 524-542)
ButtonAdmin(u, action, t) ==
  /\ Event
  /\ user_data' =
       CASE action = "add" -> [user_data EXCEPT ![u].admin_coupon_type = t,
                                                ![u].awaiting_coupons = TRUE]
         [] action = "remove" -> [user_data EXCEPT ![u].admin_coupon_type = t,
                                                   ![u].awaiting_remove_quantity = TRUE]
         [] action = "price" -> [user_data EXCEPT ![u].admin_coupon_type = t,
                                                  ![u].awaiting_price = TRUE]
  /\ UNCHANGED <<store, handlers, failures, settings, coupon_seq, menus, reprompts, remove_errors, backs, approval, call, returned, ignored>>

\* AmountReply that credits the amount as soon as it is entered
AmountReplyCredits(u, x) ==
  /\ TextBranch(user_data[u]) = "amount"
  /\ Event
  /\ user_data' = IF BelowMinimum(x) THEN user_data
                  ELSE [user_data EXCEPT ![u].payment_amount = <<x>>,
                                         ![u].awaiting_amount = FALSE]
  /\ users' = IF BelowMinimum(x) THEN users ELSE AdjustBalance(users, u, x)
  /\ UNCHANGED <<coupons, orders, pending_orders, prices, handlers, failures, settings,
                 coupon_seq, menus, reprompts, remove_errors, backs, approval, call, returned, ignored>>

\* handle_message, the awaiting_amount branch, int(text) = x (bot.py 752-775)
AmountReply(u, x) ==
  /\ TextBranch(user_data[u]) = "amount"
  /\ Event
  /\ user_data' = IF BelowMinimum(x) THEN user_data
                  ELSE [user_data EXCEPT ![u].payment_amount = <<x>>,
                                         ![u].awaiting_amount = FALSE]
  /\ UNCHANGED <<store, handlers, failures, settings, coupon_seq, menus, reprompts, remove_errors, backs, approval, call, returned, ignored>>

\* handle_message, the awaiting_upi_amount branch, int(text) = x (bot.py
\* 781-819): the SELECT of the QR code only shapes the reply
UpiAmountReply(u, x) ==
  /\ TextBranch(user_data[u]) = "upi_amount"
  /\ Event
  /\ IF BelowMinimum(x)
     THEN UNCHANGED <<user_data, failures>>
     ELSE /\ \E o \in Outcomes : Fail(o)
          /\ user_data' = [user_data EXCEPT ![u].payment_amount = <<x>>,
                                            ![u].awaiting_upi_amount = FALSE,
                                            ![u].order_id = "id"]
  /\ UNCHANGED <<store, handlers, settings, coupon_seq, menus, reprompts, remove_errors, backs, approval, call, returned, ignored>>

\* handle_message, the awaiting_giftcard branch (bot.py 825-829)
GiftcardReply(u) ==
  /\ TextBranch(user_data[u]) = "giftcard"
  /\ Event
  /\ user_data' = [user_data EXCEPT ![u].giftcard_code = "text",
                                    ![u].awaiting_giftcard = FALSE,
                                    ![u].awaiting_screenshot = TRUE]
  /\ UNCHANGED <<store, handlers, failures, settings, coupon_seq, menus, reprompts, remove_errors, backs, approval, call, returned, ignored>>

\* handle_message, the awaiting_payer_name branch (bot.py 832-836)
PayerNameReply(u) ==
  /\ TextBranch(user_data[u]) = "payer_name"
  /\ Event
  /\ user_data' = [user_data EXCEPT ![u].payer_name = "text",
                                    ![u].awaiting_payer_name = FALSE,
                                    ![u].awaiting_upi_screenshot = TRUE]
  /\ UNCHANGED <<store, handlers, failures, settings, coupon_seq, menus, reprompts, remove_errors, backs, approval, call, returned, ignored>>

\* NotNumberReply that drops the fields the flow has gathered
NotNumberReplyForgets(u) ==
  /\ TextBranch(user_data[u]) \in {"amount", "upi_amount", "remove_quantity", "price"}
  /\ Event
  /\ reprompts' = [reprompts EXCEPT ![u] = @ + 1]
  /\ user_data' = [user_data EXCEPT ![u].payment_method = "None",
                                    ![u].admin_coupon_type = "None"]
  /\ UNCHANGED <<store, handlers, failures, settings, coupon_seq, menus, remove_errors, backs, approval, call, returned, ignored>>

\* int(text) raised ValueError in the amount, removal or price branch (bot.py
\* 777-778, 821-822, 883-884, 901-902)
NotNumberReply(u) ==
  /\ TextBranch(user_data[u]) \in {"amount", "upi_amount", "remove_quantity", "price"}
  /\ Event
  /\ reprompts' = [reprompts EXCEPT ![u] = @ + 1]
  /\ UNCHANGED <<store, user_data, handlers, failures, settings, coupon_seq, menus, remove_errors, backs, approval, call, returned, ignored>>

\* IdleText that takes the text as a deposit amount
IdleTextStoresAmount(u) ==
  /\ TextBranch(user_data[u]) = "none"
  /\ Event
  /\ ignored' = [ignored EXCEPT ![u] = @ + 1]
  /\ user_data' = [user_data EXCEPT ![u].payment_amount = <<MinAmount>>]
  /\ UNCHANGED <<store, handlers, failures, settings, coupon_seq, menus,
                 reprompts, remove_errors, backs, approval, call, returned>>

\* handle_message, a text that is no menu token from a user with none of the
\* flags set that the if/elif chain tests (bot.py 634-902): no branch is taken
IdleText(u) ==
  /\ TextBranch(user_data[u]) = "none"
  /\ Event
  /\ ignored' = [ignored EXCEPT ![u] = @ + 1]
  /\ UNCHANGED <<store, user_data, handlers, failures, settings, coupon_seq, menus,
                 reprompts, remove_errors, backs, approval, call, returned>>

\* handle_message, the awaiting_coupons branch, a text of one line `code`
\* (bot.py 839-856): the INSERT takes the next id of the sequence
CouponsReply(u, code) ==
  /\ TextBranch(user_data[u]) = "coupons"
  /\ Event
  /\ \E o \in Outcomes :
       /\ Fail(o)
       /\ coupon_seq' = IF o = "ok" THEN coupon_seq + 1 ELSE coupon_seq
       /\ coupons' = IF o = "ok"
                     THEN InsertCoupon(coupons, coupon_seq + 1, code,
                                       user_data[u].admin_coupon_type)
                     ELSE coupons
  /\ user_data' = [user_data EXCEPT ![u].awaiting_coupons = FALSE]
  /\ UNCHANGED <<users, orders, pending_orders, prices, handlers, settings, menus, reprompts, remove_errors, backs, approval, call, returned, ignored>>

\* RemoveReply with fetch='all' passed to execute_query
RemoveReplyFetchAll(u, q) ==
  /\ TextBranch(user_data[u]) = "remove_quantity"
  /\ Event
  /\ \E o \in Outcomes :
       \E S \in SelectUnused(coupons, user_data[u].admin_coupon_type, q) :
         LET coupons_result == execute_query(o, "all", S)
         IN /\ Fail(o)
            /\ IF coupons_result = << >>
               THEN /\ remove_errors' = [remove_errors EXCEPT ![u] = @ + 1]
                    /\ UNCHANGED <<user_data, h>>
               ELSE IF Cardinality(coupons_result[1]) < q
                    THEN UNCHANGED <<user_data, h, remove_errors>>
                    ELSE IF coupons_result[1] = {}
                         THEN /\ user_data' = [user_data EXCEPT
                                                 ![u].awaiting_remove_quantity = FALSE]
                              /\ UNCHANGED <<h, remove_errors>>
                         ELSE /\ HasFree
                              /\ h' = [h EXCEPT ![FreeSlot] =
                                         [Idle EXCEPT !.kind = "remove", !.pc = "delete",
                                                      !.user = u, !.qty = q,
                                                      !.sel = coupons_result[1],
                                                      !.ctype = user_data[u].admin_coupon_type]]
                              /\ UNCHANGED <<user_data, remove_errors>>
  /\ UNCHANGED <<store, receipts, credited, notices, nPurchases, nResolves,
                 settings, coupon_seq, menus, reprompts, backs, approval, call, returned, ignored>>

\* handle_message, the awaiting_remove_quantity branch, int(text) = q (bot.py
\* 859-871): SELECT id ... LIMIT q. The call passes no fetch (bot.py 864-867),
\* so coupons_result is None whether the statement commits or raises, and
\* len(coupons_result) raises TypeError, which handle_message catches and
\* answers with the error reply (bot.py 869, 904-906): the flag stays set and
\* nothing is deleted. The lines after the len() run only for a
\* coupons_result that is not None.
RemoveReply(u, q) ==
  /\ TextBranch(user_data[u]) = "remove_quantity"
  /\ Event
  /\ \E o \in Outcomes :
       \E S \in SelectUnused(coupons, user_data[u].admin_coupon_type, q) :
         LET coupons_result == execute_query(o, "none", S)
         IN /\ Fail(o)
            /\ IF coupons_result = << >>
               THEN /\ remove_errors' = [remove_errors EXCEPT ![u] = @ + 1]
                    /\ UNCHANGED <<user_data, h>>
               ELSE IF Cardinality(coupons_result[1]) < q
                    THEN UNCHANGED <<user_data, h, remove_errors>>
                    ELSE IF coupons_result[1] = {}
                         THEN /\ user_data' = [user_data EXCEPT
                                                 ![u].awaiting_remove_quantity = FALSE]
                              /\ UNCHANGED <<h, remove_errors>>
                         ELSE /\ HasFree
                              /\ h' = [h EXCEPT ![FreeSlot] =
                                         [Idle EXCEPT !.kind = "remove", !.pc = "delete",
                                                      !.user = u, !.qty = q,
                                                      !.sel = coupons_result[1],
                                                      !.ctype = user_data[u].admin_coupon_type]]
                              /\ UNCHANGED <<user_data, remove_errors>>
  /\ UNCHANGED <<store, receipts, credited, notices, nPurchases, nResolves,
                 settings, coupon_seq, menus, reprompts, backs, approval, call, returned, ignored>>

\* the loop of the removal: DELETE FROM coupons WHERE id = %s, and after the
\* last one the reply and awaiting_remove_quantity = False (bot.py 873-881);
\* it runs only for a coupons_result that is not None
RemoveDelete(s) ==
  /\ h[s].pc = "delete"
  /\ \E o \in Outcomes :
       LET c == Min(h[s].sel)
       IN /\ Fail(o)
          /\ coupons' = IF o = "ok" THEN DeleteCoupon(coupons, c) ELSE coupons
          /\ IF h[s].sel = {c}
             THEN /\ h' = [h EXCEPT ![s] = Idle]
                  /\ user_data' = [user_data EXCEPT
                                     ![h[s].user].awaiting_remove_quantity = FALSE]
             ELSE /\ h' = [h EXCEPT ![s].sel = @ \ {c}]
                  /\ UNCHANGED user_data
  /\ UNCHANGED <<users, orders, pending_orders, prices, receipts, credited, notices,
                 nPurchases, nResolves, flow>>

\* handle_message, the awaiting_price branch, int(text) = p (bot.py 887-899)
PriceReply(u, p) ==
  /\ TextBranch(user_data[u]) = "price"
  /\ Event
  /\ \E o \in Outcomes :
       /\ Fail(o)
       /\ prices' = IF o = "ok"
                    THEN SetPrice(prices, user_data[u].admin_coupon_type, p)
                    ELSE prices
  /\ user_data' = [user_data EXCEPT ![u].awaiting_price = FALSE]
  /\ UNCHANGED <<users, coupons, orders, pending_orders, handlers, settings,
                 coupon_seq, menus, reprompts, remove_errors, backs, approval, call, returned, ignored>>

\* handle_photo (bot.py 908-1021): the operator's QR image, or the screenshot
\* that ends a deposit flow and creates the claim under a fresh id
Photo(u) ==
  /\ Event
  /\ LET d == user_data[u]
         cid == Cardinality(DOMAIN pending_orders) + 1
     IN IF d.awaiting_qr /\ u = ADMIN_ID
        THEN /\ \E o \in Outcomes :
                  /\ Fail(o)
                  /\ settings' = IF o = "ok" THEN "file_id" ELSE settings
             /\ user_data' = [user_data EXCEPT ![u].awaiting_qr = FALSE]
             /\ UNCHANGED pending_orders
        ELSE IF d.awaiting_screenshot \/ d.awaiting_upi_screenshot
             THEN /\ cid \in ClaimIds
                  /\ \E o \in Outcomes :
                       /\ Fail(o)
                       /\ pending_orders' =
                            IF o = "ok"
                            THEN InsertClaim(pending_orders, cid, u, d.payment_amount,
                                             IF d.awaiting_screenshot
                                             THEN "amazon" ELSE "upi")
                            ELSE pending_orders
                  /\ user_data' = IF d.awaiting_screenshot
                                  THEN [user_data EXCEPT ![u].awaiting_screenshot = FALSE]
                                  ELSE [user_data EXCEPT ![u].awaiting_upi_screenshot = FALSE]
                  /\ UNCHANGED settings
             ELSE UNCHANGED <<pending_orders, user_data, settings, failures>>
  /\ UNCHANGED <<users, coupons, orders, prices, handlers, coupon_seq, menus, reprompts, remove_errors, backs, approval, call, returned, ignored>>

\* ------------------------------------------------------ approval keyboard
\* handle_photo sends the operator the image of the claim order_id with the
\* keyboard of get_admin_approval_keyboard (bot.py 960-965, 1006-1011)
SendApprovalKeyboard(order_id, payment_method) ==
  /\ approval.keyboard = << >>
  /\ approval' = [NoApproval EXCEPT
                    !.order_id = order_id, !.payment_method = payment_method,
                    !.keyboard = get_admin_approval_keyboard(order_id, payment_method)]
  /\ UNCHANGED <<store, user_data, handlers, failures, settings, coupon_seq, nEvents,
                 menus, reprompts, remove_errors, backs, call, returned, ignored>>

\* button_callback takes the data of button b of the keyboard: the branch,
\* and in the approve_ and decline_ branches parts = data.split('_'),
\* order_id = parts[1], payment_method = parts[2] (bot.py 547-550, 582-585)
TapApprovalButton(b) ==
  /\ approval.keyboard # << >>
  /\ approval.button = 0
  /\ LET data == approval.keyboard[b]
         parts == Split(data, "_")
     IN approval' = [approval EXCEPT
                       !.button = b,
                       !.branch = CallbackBranch(data),
                       !.parsed_id = IF Len(parts) >= 2 THEN parts[2] ELSE << >>,
                       !.parsed_method = IF Len(parts) >= 3 THEN parts[3] ELSE << >>]
  /\ UNCHANGED <<store, user_data, handlers, failures, settings, coupon_seq, nEvents,
                 menus, reprompts, remove_errors, backs, call, returned, ignored>>

\* ---------------------------------------------------------- execute_query
\* the statements of a call: an UPDATE of a balance, which every caller runs
\* with fetch='none' (bot.py 680-684, 694-698), and a SELECT of a balance,
\* with fetch='one' (bot.py 666-670), 'all', or no fetch argument
Fetches(query) == IF query = "UPDATE" THEN {"none"} ELSE {"none", "one", "all"}

\* the outcomes of a step of a call that talks to the server: it returns or it
\* raises, at most MaxQueryFailures times in a run
QueryOutcomes == IF failures < MaxQueryFailures THEN {"ok", "failed"} ELSE {"ok"}

\* a caller calls execute_query(query, (delta, user_id), fetch): conn = None
\* (bot.py 55-58)
QueryCall(query, user_id, delta, fetch) ==
  /\ call.pc = "idle"
  /\ Len(returned) < MaxCalls
  /\ call' = [NoCall EXCEPT !.pc = "connect", !.query = query, !.user_id = user_id,
                            !.delta = delta, !.fetch = fetch, !.before = <<users>>]
  /\ UNCHANGED <<store, user_data, handlers, failures, settings, coupon_seq, nEvents,
                 menus, reprompts, remove_errors, backs, approval, returned, ignored>>

\* get_db_connection (bot.py 41-53), attempt i of psycopg2.connect: the
\* connection is returned, or the attempt fails and the next one follows, or
\* the last attempt fails and the exception is raised into execute_query
QueryConnect ==
  /\ call.pc = "connect"
  /\ \E o \in QueryOutcomes :
       /\ Fail(o)
       /\ call' = IF o = "ok"
                  THEN [call EXCEPT !.conn = "open", !.pc = "execute"]
                  ELSE IF call.i = retries - 1
                       THEN [call EXCEPT !.exc = <<"connect">>, !.pc = "except"]
                       ELSE [call EXCEPT !.i = @ + 1]
  /\ UNCHANGED <<store, user_data, h, receipts, credited, notices, nPurchases, nResolves,
                 settings, coupon_seq, nEvents, menus, reprompts, remove_errors, backs,
                 approval, returned, ignored>>

\* cur.execute(query, params) (bot.py 60-61): the statement runs in the
\* transaction of the connection, or raises
QueryExecute ==
  /\ call.pc = "execute"
  /\ \E o \in QueryOutcomes :
       /\ Fail(o)
       /\ call' = IF o = "ok"
                  THEN [call EXCEPT !.pc = "fetch",
                                    !.tx = IF call.query = "UPDATE"
                                           THEN <<AdjustBalance(users, call.user_id, call.delta)>>
                                           ELSE << >>]
                  ELSE [call EXCEPT !.exc = <<"execute">>, !.pc = "except"]
  /\ UNCHANGED <<store, user_data, h, receipts, credited, notices, nPurchases, nResolves,
                 settings, coupon_seq, nEvents, menus, reprompts, remove_errors, backs,
                 approval, returned, ignored>>

\* the rows a SELECT of the balance of user_id gives
BalanceRows(tbl, user_id) == IF user_id \in DOMAIN tbl THEN {tbl[user_id]} ELSE {}

\* result = cur.fetchall(), cur.fetchone() or None (bot.py 63-68): fetchone
\* gives None when there is no row
QueryFetch ==
  /\ call.pc = "fetch"
  /\ LET rows == BalanceRows(users, call.user_id)
         result == CASE call.fetch = "all" -> <<rows>>
                     [] call.fetch = "one" ->
                          IF rows = {} THEN << >> ELSE <<CHOOSE r \in rows : TRUE>>
                     [] OTHER -> << >>
     IN call' = [call EXCEPT !.pc = "commit", !.result = result]
  /\ UNCHANGED <<store, user_data, handlers, failures, settings, coupon_seq, nEvents,
                 menus, reprompts, remove_errors, backs, approval, returned, ignored>>

\* conn.commit(), cur.close() and return result (bot.py 70-72): the
\* transaction is committed, or commit raises
QueryCommit ==
  /\ call.pc = "commit"
  /\ \E o \in QueryOutcomes :
       /\ Fail(o)
       /\ users' = IF o = "ok" /\ call.tx # << >> THEN call.tx[1] ELSE users
       /\ call' = IF o = "ok"
                  THEN [call EXCEPT !.pc = "finally", !.committed = TRUE, !.tx = << >>]
                  ELSE [call EXCEPT !.exc = <<"commit">>, !.pc = "except"]
  /\ UNCHANGED <<coupons, orders, pending_orders, prices, user_data, h, receipts,
                 credited, notices, nPurchases, nResolves, settings, coupon_seq, nEvents,
                 menus, reprompts, remove_errors, backs, approval, returned, ignored>>

\* QueryExcept with the exception raised again after the rollback, as
\* get_db_connection does after its last attempt (bot.py 50-51)
QueryExceptRaises ==
  /\ call.pc = "except"
  /\ call' = [call EXCEPT !.pc = "finally", !.result = << >>,
                          !.tx = IF call.conn # "None" THEN << >> ELSE @]
  /\ UNCHANGED <<store, user_data, handlers, failures, settings, coupon_seq, nEvents,
                 menus, reprompts, remove_errors, backs, approval, returned, ignored>>

\* except Exception (bot.py 73-77): the error is logged, the transaction is
\* rolled back when there is a connection, and None is the value to return
QueryExcept ==
  /\ call.pc = "except"
  /\ call' = [call EXCEPT !.pc = "finally", !.exc = << >>, !.result = << >>,
                          !.tx = IF call.conn # "None" THEN << >> ELSE @]
  /\ UNCHANGED <<store, user_data, handlers, failures, settings, coupon_seq, nEvents,
                 menus, reprompts, remove_errors, backs, approval, returned, ignored>>

\* finally (bot.py 78-80): the connection is closed when there is one, and
\* the call ends: the caller gets result, or the exception still in flight
QueryFinally ==
  /\ call.pc = "finally"
  /\ returned' = Append(returned,
                   [query |-> call.query, fetch |-> call.fetch, attempts |-> call.i + 1,
                    conn |-> IF call.conn # "None" THEN "closed" ELSE "None",
                    committed |-> call.committed, result |-> call.result,
                    raised |-> call.exc # << >>,
                    before |-> call.before[1], after |-> users])
  /\ call' = NoCall
  /\ UNCHANGED <<store, user_data, handlers, failures, settings, coupon_seq, nEvents,
                 menus, reprompts, remove_errors, backs, approval, ignored>>

\* ------------------------------------------------------------------- Next
\* NextPurchase with fetch='all' passed in the SELECT of the coupons: the
\* loop over coupons_result and the receipt run
NextPurchaseFetchAll ==
  \/ \E u \in Users : Start(u)
  \/ \E u \in Users, t \in Types : ButtonCoupon(u, t)
  \/ \E u \in Users, q \in QtyInputs : QuantityReply(u, q)
  \/ \E s \in Slots : PurchasePrice(s)
  \/ \E s \in Slots : PurchaseBalance(s)
  \/ \E s \in Slots : PurchaseDebit(s)
  \/ \E s \in Slots : PurchaseSelectFetchAll(s)
  \/ \E s \in Slots : PurchaseRefund(s)
  \/ \E s \in Slots : PurchaseMark(s)
  \/ \E s \in Slots : PurchaseOrder(s)
  \/ \E s \in Slots : PurchaseReceipt(s)

\* the handlers of the purchase flow
NextPurchase ==
  \/ \E u \in Users : Start(u)
  \/ \E u \in Users, t \in Types : ButtonCoupon(u, t)
  \/ \E u \in Users, q \in QtyInputs : QuantityReply(u, q)
  \/ \E s \in Slots : PurchasePrice(s)
  \/ \E s \in Slots : PurchaseBalance(s)
  \/ \E s \in Slots : PurchaseDebit(s)
  \/ \E s \in Slots : PurchaseSelect(s)
  \/ \E s \in Slots : PurchaseRefund(s)

\* the handlers of the approve and decline buttons
NextResolve ==
  \/ \E u \in Users : Start(u)
  \/ \E a \in Users, cid \in ClaimIds : ApproveTap(a, cid)
  \/ \E s \in Slots : ApproveCredit(s)
  \/ \E s \in Slots : ApproveStatus(s)
  \/ \E a \in Users, cid \in ClaimIds : DeclineTap(a, cid)
  \/ \E s \in Slots : DeclineNotify(s)

\* the deposit flows of the session: menus, taps, free texts and images
NextDeposit ==
  \/ \E u \in Users : Start(u)
  \/ \E u \in Users : Menu(u)
  \/ \E u \in Users : ButtonTermsAgree(u)
  \/ \E u \in Users, t \in Types : ButtonCoupon(u, t)
  \/ \E u \in Users : QuantityNotNumber(u)
  \/ \E a \in AdminActions, t \in Types : ButtonAdmin(ADMIN_ID, a, t)
  \/ \E u \in Users, m \in Methods : ButtonPayment(u, m)
  \/ \E u \in Users, b \in BackTags : ButtonBack(u, b)
  \/ \E u \in Users : ButtonSubmitGiftcard(u)
  \/ \E u \in Users : ButtonPaidUpi(u)
  \/ \E u \in Users, x \in AmountInputs : AmountReply(u, x)
  \/ \E u \in Users, x \in AmountInputs : UpiAmountReply(u, x)
  \/ \E u \in Users : GiftcardReply(u)
  \/ \E u \in Users : PayerNameReply(u)
  \/ \E u \in Users : NotNumberReply(u)
  \/ \E u \in Users : Photo(u)

\* the flows of the admin panel
NextAdmin ==
  \/ \E a \in Users, opt \in AdminOptions : AdminMenu(a, opt)
  \/ \E u \in Users, a \in AdminActions, t \in Types : ButtonAdmin(u, a, t)
  \/ \E u \in Users : NotNumberReply(u)
  \/ \E u \in Users, code \in CodeInputs : CouponsReply(u, code)
  \/ \E u \in Users, q \in QtyInputs : RemoveReply(u, q)
  \/ \E u \in Users, p \in PriceInputs : PriceReply(u, p)
  \/ \E u \in Users : Photo(u)

\* NextRemove with fetch='all' passed in the two SELECTs of the coupons: the
\* loops over coupons_result run
NextRemoveFetchAll ==
  \/ \E u \in Users \ {ADMIN_ID}, t \in Types : ButtonCoupon(u, t)
  \/ \E u \in Users \ {ADMIN_ID}, q \in QtyInputs : QuantityReply(u, q)
  \/ \E s \in Slots : PurchasePrice(s)
  \/ \E s \in Slots : PurchaseBalance(s)
  \/ \E s \in Slots : PurchaseDebit(s)
  \/ \E s \in Slots : PurchaseSelectFetchAll(s)
  \/ \E s \in Slots : PurchaseRefund(s)
  \/ \E s \in Slots : PurchaseMark(s)
  \/ \E s \in Slots : PurchaseOrder(s)
  \/ \E s \in Slots : PurchaseReceipt(s)
  \/ \E t \in Types : /\ ~user_data[ADMIN_ID].awaiting_remove_quantity
                       /\ ButtonAdmin(ADMIN_ID, "remove", t)
  \/ \E u \in Users, q \in QtyInputs : RemoveReplyFetchAll(u, q)
  \/ \E s \in Slots : RemoveDelete(s)

\* a stock removal of the operator running together with the purchases of
\* the customers (the operator taps the button when no prompt is open)
NextRemove ==
  \/ \E u \in Users \ {ADMIN_ID}, t \in Types : ButtonCoupon(u, t)
  \/ \E u \in Users \ {ADMIN_ID}, q \in QtyInputs : QuantityReply(u, q)
  \/ \E s \in Slots : PurchasePrice(s)
  \/ \E s \in Slots : PurchaseBalance(s)
  \/ \E s \in Slots : PurchaseDebit(s)
  \/ \E s \in Slots : PurchaseSelect(s)
  \/ \E s \in Slots : PurchaseRefund(s)
  \/ \E t \in Types : /\ ~user_data[ADMIN_ID].awaiting_remove_quantity
                       /\ ButtonAdmin(ADMIN_ID, "remove", t)
  \/ \E u \in Users, q \in QtyInputs : RemoveReply(u, q)

\* the numeric steps of the flows: the taps that open them (the customers
\* those of the purchase and the deposit, the operator those of the admin
\* panel) and the texts that answer them, a number or not
NextNumeric ==
  \/ \E u \in Users \ {ADMIN_ID}, t \in Types : ButtonCoupon(u, t)
  \/ \E u \in Users \ {ADMIN_ID}, m \in Methods : ButtonPayment(u, m)
  \/ \E a \in AdminActions, t \in Types : ButtonAdmin(ADMIN_ID, a, t)
  \/ \E u \in Users : QuantityNotNumber(u)
  \/ \E u \in Users : NotNumberReply(u)
  \/ \E u \in Users, x \in AmountInputs : AmountReply(u, x)
  \/ \E u \in Users, x \in AmountInputs : UpiAmountReply(u, x)
  \/ \E u \in Users, p \in PriceInputs : PriceReply(u, p)
  \/ \E u \in Users, q \in QtyInputs : RemoveReply(u, q)

\* the free texts of the purchase and deposit flows, in a flow step or in
\* none, and the taps that open the steps
NextText ==
  \/ \E u \in Users, t \in Types : ButtonCoupon(u, t)
  \/ \E u \in Users, m \in Methods : ButtonPayment(u, m)
  \/ \E u \in Users : ButtonSubmitGiftcard(u)
  \/ \E u \in Users : ButtonPaidUpi(u)
  \/ \E u \in Users : QuantityNotNumber(u)
  \/ \E u \in Users, x \in AmountInputs : AmountReply(u, x)
  \/ \E u \in Users, x \in AmountInputs : UpiAmountReply(u, x)
  \/ \E u \in Users : GiftcardReply(u)
  \/ \E u \in Users : PayerNameReply(u)
  \/ \E u \in Users : NotNumberReply(u)
  \/ \E u \in Users : IdleText(u)

\* the approval keyboard of a claim, from handle_photo to button_callback
NextTags ==
  \/ \E order_id \in OrderIds, m \in Methods : SendApprovalKeyboard(order_id, m)
  \/ \E b \in 1..2 : TapApprovalButton(b)

\* calls of execute_query, one after the other
NextQuery ==
  \/ \E query \in {"UPDATE", "SELECT"}, user_id \in Users, fetch \in {"none", "one", "all"} :
       /\ fetch \in Fetches(query)
       /\ QueryCall(query, user_id, IF query = "UPDATE" THEN MinAmount ELSE 0, fetch)
  \/ QueryConnect
  \/ QueryExecute
  \/ QueryFetch
  \/ QueryCommit
  \/ QueryExcept
  \/ QueryFinally

Next ==
  \/ NextPurchase \/ NextResolve \/ NextDeposit \/ NextAdmin \/ NextRemove
  \/ NextNumeric \/ NextText \/ NextTags \/ NextQuery

Spec == Init /\ [][Next]_vars

\* purchases running together, over the store an earlier run left
SpecPurchase == Init /\ [][NextPurchase]_vars

\* approve and decline taps running together
SpecResolve == Init /\ [][NextResolve]_vars

\* the store the flows start from: the stock, the operator's account, no
\* claim yet, and the other users not yet in users
InitFlow == Init /\ pending_orders = << >> /\ DOMAIN users = {ADMIN_ID}

\* the deposit flows, one event after the other
SpecDeposit == InitFlow /\ [][NextDeposit]_vars

\* the flows of the admin panel
SpecAdmin == InitFlow /\ [][NextAdmin]_vars

\* the store a removal and a purchase meet in: the stock, every user with an
\* account, and one approved claim that funds a customer
InitRemove ==
  /\ Init
  /\ DOMAIN users = Users
  /\ DOMAIN pending_orders = {1}
  /\ pending_orders[1].status = "approved"
  /\ pending_orders[1].user_id # ADMIN_ID

\* a stock removal and purchases running together
SpecRemove == InitRemove /\ [][NextRemove]_vars

\* execute_query called on the users table
SpecQuery == InitFlow /\ [][NextQuery]_vars

\* the numeric steps of the flows
SpecNumeric == InitFlow /\ [][NextNumeric]_vars

\* the free texts of the purchase and deposit flows
SpecText == InitFlow /\ [][NextText]_vars

\* the tags of the approval keyboard
SpecTags == InitFlow /\ [][NextTags]_vars

\* ================================================================ claims
RECURSIVE SumCodes(_)
SumCodes(R) ==
  IF R = {} THEN 0
  ELSE LET r == CHOOSE x \in R : TRUE
       IN Cardinality(r.codes) + SumCodes(R \ {r})

\* C1: no double allocation. The purchases that ran against the MaxStock
\* unused coupons of the type have delivered at most MaxStock codes in total,
\* and no code was delivered to two purchases.
NoDoubleAllocation ==
  /\ SumCodes(receipts) <= MaxStock
  /\ \A r1, r2 \in receipts : r1.pid # r2.pid => r1.codes \cap r2.codes = {}

\* two purchases in flight together, both debited and both past the SELECT of
\* the coupons, that asked for more than the stock between them
PurchasesRaced ==
  /\ failures = 0
  /\ \E s1, s2 \in Slots :
       /\ s1 # s2
       /\ h[s1].pc = "refund" /\ h[s1].net > 0
       /\ h[s2].pc = "refund" /\ h[s2].net > 0
       /\ h[s1].qty + h[s2].qty > CountUnused(coupons, "500")

\* C2: debit-allocate atomicity. Every purchase that has ended either delivered
\* exactly quantity codes and lowered the balance by exactly price x quantity,
\* or failed, delivered no code and left the balance as it was.
DebitAllocateAtomicity ==
  \A r \in receipts :
    \/ r.ok /\ Cardinality(r.codes) = r.qty /\ r.net = r.unit * r.qty
    \/ ~r.ok /\ r.codes = {} /\ r.net = 0

\* C3: no double credit. The balance credits committed for one claim never
\* add up to more than the claim's amount.
CreditedAtMostOnce ==
  \A c \in DOMAIN pending_orders : credited[c] <= pending_orders[c].amount

\* C4: no balance is negative, in particular (no statement having failed)
\* when two purchases run together.
BalanceNonNegative ==
  failures = 0 => \A u \in DOMAIN users : users[u] >= 0

\* C5: no purchase ends with the balance debited while the buyer got neither
\* the codes nor the refund, whatever statement failed.
NoDebitWithoutCouponsOrRefund ==
  \A r \in receipts : ~(r.net > 0 /\ r.codes = {})

\* the rows of orders under one order id
OrderRows(oid) == IF oid \in DOMAIN orders THEN {orders[oid]} ELSE {}

\* C6: a purchase of quantity n that the stock and the balance allow (it
\* passed the stock check and the balance before it covers price x n), run
\* alone and with every statement committed, is successful and has n rows in
\* orders under its order id.
OneOrderRowPerCoupon ==
  (failures = 0 /\ nPurchases = 1) =>
    \A r \in receipts :
      (r.unit > 0 /\ ReadBalance(users, r.user) + r.net >= r.unit * r.qty) =>
        /\ r.ok
        /\ Cardinality(OrderRows(r.pid)) = r.qty

\* C7: a claim that is approved or declined keeps its status in every step.
StatusTerminal ==
  [][\A c \in DOMAIN pending_orders :
       pending_orders[c].status # "pending" =>
         pending_orders'[c].status = pending_orders[c].status]_vars

\* C8: the approve of a pending claim whose statements commit adds exactly the
\* claim's amount to the claimant's balance and to no other, and sets the
\* status to approved; the approve of an id that has no row changes no balance
\* and no claim.
ApproveCreditsClaimant ==
  [][/\ \A s \in Slots :
          /\ (h[s].pc = "credit" /\ h'[s].pc = "status" /\ h[s].was = "pending"
                /\ failures' = failures) =>
               /\ h[s].cuser \in DOMAIN users
               /\ users' = [users EXCEPT ![h[s].cuser] = @ + h[s].amount]
          /\ (h[s].pc = "status" /\ h'[s].pc = "idle" /\ h[s].was = "pending"
                /\ failures' = failures) =>
               pending_orders'[h[s].cid].status = "approved"
     /\ (nResolves' # nResolves /\ h' = h /\ failures' = failures) =>
          UNCHANGED <<users, pending_orders>>]_vars

NonOperatorRejected ==
  [][\A s \in Slots :
       /\ (h[s].pc = "idle" /\ h'[s].kind \in {"approve", "decline"}
             /\ h'[s].user # ADMIN_ID) =>
            UNCHANGED <<users, pending_orders, notices>>
       /\ (h[s].kind \in {"approve", "decline"} /\ h[s].user # ADMIN_ID
             /\ h'[s] # h[s]) =>
            UNCHANGED <<users, pending_orders, notices>>]_vars

\* C11: a step that sends the claimant a notification is a step of a handler
\* whose store mutation has committed: for a decline the status UPDATE, for an
\* approve the balance credit and, in the same step, the status UPDATE.
NotifyAfterCommit ==
  [][\A s \in Slots :
       (h'[s] # h[s] /\ notices' # notices) =>
         /\ h[s].committed
         /\ h[s].kind = "approve" => failures' = failures]_vars

\* C12: a purchase rejected at the stock check or at the balance check has
\* changed nothing in the store: the quantity reply with its stock count, the
\* price read and the balance read with its check leave every table as it
\* was, whether the purchase goes on or is rejected there.
RejectedPurchaseNoMutation ==
  [][/\ nPurchases' # nPurchases => UNCHANGED store
     /\ \A s \in Slots :
          (h[s].pc \in {"price", "balance"} /\ h'[s] # h[s]) => UNCHANGED store]_vars

\* a purchase of more than the stock was rejected before it read the price,
\* and a purchase of more than the balance pays for was rejected after it
RejectedForStock ==
  /\ failures = 0
  /\ \E r \in receipts : ~r.ok /\ r.unit = 0 /\ r.qty > CountUnused(coupons, "500")
  /\ \E r \in receipts :
       /\ ~r.ok /\ r.unit > 0
       /\ ReadBalance(users, r.user) < r.unit * r.qty

\* C13: the purchase whose SELECT after the debit came back short ends with
\* the debit reversed by exactly price x quantity (the balance is what it was
\* before the purchase), with no coupon consumed and no order recorded, and
\* reports failure.
RaceRefundsDebit ==
  [][\A s \in Slots :
       (h[s].pc = "refund" /\ h'[s].pc = "idle") =>
         /\ ReadBalance(users', h[s].user) = ReadBalance(users, h[s].user) + h[s].total
         /\ UNCHANGED <<coupons, orders>>
         /\ \E r \in receipts' : r.pid = h[s].pid /\ ~r.ok /\ r.codes = {} /\ r.net = 0]_vars

RemovalSparesConsumed ==
  [][/\ \A c \in DOMAIN coupons \ DOMAIN coupons' :
          /\ ~coupons[c].is_used
          /\ \A s \in Slots : h[s].kind = "purchase" => c \notin h[s].sel \cup h[s].codes
     /\ \A r \in receipts' : \A c \in r.codes :
          c \in DOMAIN coupons' /\ coupons'[c].is_used]_vars

\* the operator's removal count was handled while a purchase of a customer,
\* debited and past the SELECT of the coupons, was in flight
RemovalMetPurchase ==
  /\ failures = 0
  /\ remove_errors[ADMIN_ID] > 0
  /\ \E s \in Slots : h[s].kind = "purchase" /\ h[s].pc = "refund" /\ h[s].net > 0

\* C15: the step that handles a user menu token of u leaves u with no flow:
\* no awaiting flag and none of the fields a flow had gathered (the selected
\* coupon type, the payment method and amount, the proof fields).
MenuResetsFlow ==
  [][\A u \in Users : menus'[u] # menus[u] => user_data'[u] = NoSession]_vars

\* C16: in every state every user has at most one awaiting flag set.
AtMostOneAwaiting ==
  \A u \in Users : Cardinality({f \in AwaitingFlags : user_data[u][f]}) <= 1

\* C17: a step that creates a claim creates it with an amount of at least
\* MinAmount and changes no balance, no coupon and no order.
ClaimAmountAtLeastMinimum ==
  [][DOMAIN pending_orders' # DOMAIN pending_orders =>
       /\ \A c \in DOMAIN pending_orders' \ DOMAIN pending_orders :
            pending_orders'[c].amount >= MinAmount
       /\ \A c \in DOMAIN pending_orders : pending_orders'[c] = pending_orders[c]
       /\ UNCHANGED <<users, coupons, orders>>]_vars

\* a deposit flow has ended in a claim of the amount the user entered
ClaimCreated ==
  \E c \in DOMAIN pending_orders :
    /\ pending_orders[c].amount = MinAmount
    /\ pending_orders[c].status = "pending"
    /\ user_data[pending_orders[c].user_id].payment_amount = <<MinAmount>>

\* C18: every row of prices has a price above 0.
PricesPositive ==
  \A t \in DOMAIN prices : prices[t] > 0

\* C19: a user who has submitted a claim or has chosen a coupon type to buy
\* has a row in users.
AccountExistsOnContact ==
  [][\A u \in Users :
       (\/ user_data'[u].selected_coupon # "None"
        \/ \E c \in DOMAIN pending_orders' \ DOMAIN pending_orders :
             pending_orders'[c].user_id = u)
         => u \in DOMAIN users']_vars

\* the flags of the operator-only flows (bot.py 532, 537, 542, 422)
OperatorFlags ==
  {"awaiting_coupons", "awaiting_remove_quantity", "awaiting_price", "awaiting_qr"}

\* C21: a user other than the operator never has an operator flag set, and a
\* step that inserts or deletes a coupon, changes a price or changes the QR
\* setting is never the step of an event or of a removal of such a user.
OperatorOnlyFlows ==
  [][/\ \A u \in Users \ {ADMIN_ID} : \A f \in OperatorFlags : ~user_data'[u][f]
     /\ (coupons' # coupons \/ prices' # prices \/ settings' # settings) =>
          /\ \A u \in Users \ {ADMIN_ID} : user_data'[u] = user_data[u]
          /\ \A s \in Slots :
               (h[s].kind = "remove" /\ h'[s] # h[s]) => h[s].user = ADMIN_ID]_vars

\* the branches of handle_message that parse the text with int() (bot.py 636,
\* 754, 783, 861, 889)
NumericBranches == {"quantity", "amount", "upi_amount", "remove_quantity", "price"}

\* C22: the step that answers a text that is not a number in a numeric step
\* with the re-prompt leaves every session as it was, the user still in the
\* same numeric step, and writes nothing to the store or the settings.
ParseFailureKeepsState ==
  [][\A u \in Users :
       reprompts'[u] # reprompts[u] =>
         /\ user_data' = user_data
         /\ TextBranch(user_data'[u]) \in NumericBranches
         /\ UNCHANGED <<store, settings, coupon_seq>>]_vars

\* a user was re-prompted in each of the numeric steps: some user is still at
\* the amount step with the method chosen, one at the quantity step with the
\* type chosen, and the operator's type is kept at the price or removal step
RepromptedInFlow ==
  /\ \E u \in Users :
       /\ reprompts[u] > 0
       /\ TextBranch(user_data[u]) \in {"amount", "upi_amount"}
       /\ user_data[u].payment_method # "None"
  /\ \E u \in Users :
       /\ reprompts[u] > 0
       /\ TextBranch(user_data[u]) \in {"remove_quantity", "price"}
       /\ user_data[u].admin_coupon_type # "None"

\* C23: the step that handles a removal count above the unused stock of the
\* chosen type leaves the user outside the removal step, and the step that
\* rejects a purchase leaves the buyer outside the quantity step.
ViolationAbortsFlow ==
  [][/\ \A u \in Users : \A q \in QtyInputs :
          (/\ RemoveReply(u, q)
           /\ q > CountUnused(coupons, user_data[u].admin_coupon_type)) =>
            ~user_data'[u].awaiting_remove_quantity
     /\ \A r \in receipts' \ receipts :
          ~r.ok => ~user_data'[r.user].awaiting_quantity]_vars

\* C24: the step that handles a decline of the terms, a user back or an admin
\* back tap of u leaves u with no awaiting flag set, and changes no account,
\* coupon, order, claim, price or setting.
BackClearsFlow ==
  [][\A u \in Users :
       backs'[u] # backs[u] =>
         /\ \A f \in AwaitingFlags : ~user_data'[u][f]
         /\ UNCHANGED <<store, settings>>]_vars

\* the step that ends a deposit flow: the image that consumes a screenshot flag
\* (bot.py 928, 971, 974, 1017)
FinalStep ==
  \E u \in Users :
    \/ user_data[u].awaiting_screenshot /\ ~user_data'[u].awaiting_screenshot
    \/ user_data[u].awaiting_upi_screenshot /\ ~user_data'[u].awaiting_upi_screenshot

\* C25: every step of a flow other than its final step (the choice of the
\* payment method, the amount, the gift card code or payer name, the terms
\* decision, the coupon type choice, the admin type choice) leaves every
\* balance, coupon, order, claim and price as it was.
IntermediateStepsKeepLedger ==
  [][FinalStep \/
     /\ \A u \in DOMAIN users : u \in DOMAIN users' /\ users'[u] = users[u]
     /\ UNCHANGED <<coupons, orders, pending_orders, prices>>]_vars

\* flows left at an intermediate step: a deposit with the method, the amount
\* and the gift card code entered, an admin flow with the type chosen, and the
\* ledger as at the start
FlowsAbandoned ==
  /\ \E u \in Users :
       /\ user_data[u].payment_amount = <<MinAmount>>
       /\ user_data[u].giftcard_code # "None"
       /\ user_data[u].awaiting_screenshot
  /\ user_data[ADMIN_ID].admin_coupon_type # "None"
  /\ pending_orders = << >>
  /\ DOMAIN coupons = CouponIds

\* C26: a step in which a statement fails leaves every user in the flow step
\* they were in: every awaiting flag that was set is still set, and the coupon
\* type that was selected is still selected.
StoreFailureKeepsFlow ==
  [][failures' # failures =>
       \A u \in Users :
         /\ \A f \in AwaitingFlags : user_data[u][f] => user_data'[u][f]
         /\ user_data[u].selected_coupon # "None" =>
              user_data'[u].selected_coupon = user_data[u].selected_coupon]_vars

\* C27: the events of one user are handled one after the other: a handler
\* that has read the session of a user ends, and writes the session, before
\* another handler of that user reads it, so no two handlers of one user are
\* in flight together.
PerUserSerialized ==
  \A s1, s2 \in Slots :
    (s1 # s2 /\ h[s1].pc # "idle" /\ h[s2].pc # "idle") => h[s1].user # h[s2].user

\* C28: the data of a tapped button of the approval keyboard is taken by the
\* branch of that button (approve for the first, decline for the second), and
\* the parts it is split into are the claim id and the payment method the
\* keyboard was built with.
TagRoundTrip ==
  approval.button # 0 =>
    /\ approval.branch = (IF approval.button = 1 THEN "approve" ELSE "decline")
    /\ approval.parsed_id = approval.order_id
    /\ approval.parsed_method = MethodText(approval.payment_method)

\* the decline button of the keyboard of a upi claim was tapped, the claim id
\* of full length and with a hyphen in it
DeclineTagParsed ==
  /\ approval.button = 2
  /\ approval.payment_method = "upi"
  /\ Len(approval.order_id) = MaxIdLen
  /\ \E i \in 1..Len(approval.order_id) : approval.order_id[i] = "-"

\* the step handles a free text that u has sent in a deposit flow
FreeText(u) ==
  \/ QuantityNotNumber(u)
  \/ \E x \in AmountInputs : AmountReply(u, x)
  \/ \E x \in AmountInputs : UpiAmountReply(u, x)
  \/ GiftcardReply(u)
  \/ PayerNameReply(u)
  \/ NotNumberReply(u)
  \/ IdleText(u)

\* C29: the step that handles a free text of a user u in no flow changes no
\* session, no row of the store and no setting, and the step that handles a
\* free text of u in any flow step leaves the session of every other user as
\* it was.
FreeTextIsolated ==
  [][\A u \in Users :
       /\ ignored'[u] # ignored[u] => UNCHANGED <<user_data, store, settings>>
       /\ FreeText(u) => \A v \in Users \ {u} : user_data'[v] = user_data[v]]_vars

\* a text of a user in no flow was passed over while another user was at the
\* amount step, and that user's amount was then stored
IdleTextIgnored ==
  \E u \in Users :
    /\ ignored[u] > 0
    /\ TextBranch(user_data[u]) = "none"
    /\ user_data[u].payment_amount = << >>
    /\ \E v \in Users \ {u} : user_data[v].payment_amount = <<MinAmount>>

\* the users whose flag f is set in the sessions d
WaitingFor(d, f) == {u \in Users : d[u][f]}

\* C30: the step that inserts a coupon, changes a price, changes the QR
\* setting or takes a removal count that the stock allows returns the flow of
\* that input to idle: one user fewer waits for coupon codes (for a price),
\* the operator no longer waits for the QR image, and the user of the removal
\* no longer waits for a removal count, at once or when the removal that the
\* step has started ends, so the next text or image is not taken for the same
\* input.
OperatorInputConsumesFlag ==
  [][/\ DOMAIN coupons' \ DOMAIN coupons # {} =>
          /\ WaitingFor(user_data', "awaiting_coupons")
                \subseteq WaitingFor(user_data, "awaiting_coupons")
          /\ WaitingFor(user_data', "awaiting_coupons")
                # WaitingFor(user_data, "awaiting_coupons")
     /\ prices' # prices =>
          /\ WaitingFor(user_data', "awaiting_price")
                \subseteq WaitingFor(user_data, "awaiting_price")
          /\ WaitingFor(user_data', "awaiting_price")
                # WaitingFor(user_data, "awaiting_price")
     /\ settings' # settings => ~user_data'[ADMIN_ID].awaiting_qr
     /\ \A u \in Users : \A q \in QtyInputs :
          (/\ RemoveReply(u, q)
           /\ q <= CountUnused(coupons, user_data[u].admin_coupon_type)
           /\ failures' = failures) =>
            \/ ~user_data'[u].awaiting_remove_quantity
            \/ \E s \in Slots : h[s].pc = "idle" /\ h'[s].kind = "remove"
     /\ \A s \in Slots :
          (h[s].kind = "remove" /\ h'[s].pc = "idle") =>
            ~user_data'[h[s].user].awaiting_remove_quantity]_vars

\* C31: no coupon is delivered unpaid. A purchase that has gone on to the
\* delivery loop, or has ended with codes delivered, has lowered the buyer's
\* balance by quantity x the price stored for the type, also when the price
\* read or the debit statement has failed.
NeverDeliveredUnpaid ==
  /\ \A r \in receipts : r.codes # {} => r.net = r.unit * r.qty
  /\ \A s \in Slots :
       (h[s].kind = "purchase" /\ h[s].pc \in {"mark", "order", "receipt"}) =>
         h[s].net = h[s].unit * h[s].qty

\* a purchase whose price read failed took the price for 0, passed the balance
\* check, debited nothing and is past the coupon SELECT: it goes to the refund,
\* not to the delivery loop, and no code has left the stock
UnpaidPurchaseNotDelivered ==
  /\ \E s \in Slots :
       /\ h[s].kind = "purchase" /\ h[s].pc = "refund"
       /\ h[s].unit > 0 /\ h[s].price = 0 /\ h[s].net = 0
  /\ \A c \in DOMAIN coupons : ~coupons[c].is_used

====
